---------------------------- MODULE Spec2Model ----------------------------
(***************************************************************************)
(* Model of src/inputrc/chars.rs: character-name parsing, display          *)
(* escaping and the control-bit codec.                                     *)
(*                                                                         *)
(* A char is its Unicode scalar value (a natural number); a String / &str  *)
(* is a sequence of chars.  Option<String> is a record [some, val].        *)
(***************************************************************************)
EXTENDS Integers, Sequences, FiniteSets, TLC

VARIABLES
    target,   \* build target family selecting the DELETE constant (cfg(unix) / cfg(windows))
    call,     \* the public function the caller invokes first
    pc,       \* position of the caller: "start", then the name of the last function that returned
    name,     \* argument of parse_char_name
    key,      \* value returned by parse_char_name
    s,        \* argument of escape_sequence
    res,      \* value returned by escape_sequence
    c,        \* argument of ctrl / unctrl / unctrl_lower / is_ctrl / meta
    r,        \* value returned by ctrl
    u,        \* value returned by unctrl or unctrl_lower
    b,        \* value returned by is_ctrl
    m         \* value returned by meta

vars == <<target, call, pc, name, key, s, res, c, r, u, b, m>>

----------------------------------------------------------------------------
(* Bounds of the explored inputs *)

\* number of leading modifier-like tokens put in front of a base name
MaxMods == 2
\* length of the free-form names over NameChars
MaxNameLen == 3
\* length of the free-form inputs of escape_sequence over EscChars
MaxEscLen == 2

----------------------------------------------------------------------------
(* Constants of chars.rs *)

ESCAPE == 27
RUBOUT == 127
BACKSPACE == 8
CTRL_BIT == 64
CTRL_MASK == 31
CTRL_MAX == 31

\* DELETE is RUBOUT under cfg(unix) and '\x08' under cfg(windows)
DELETE == IF target = "unix" THEN RUBOUT ELSE BACKSPACE

None == [some |-> FALSE, val |-> <<>>]
Some(v) == [some |-> TRUE, val |-> v]

----------------------------------------------------------------------------
(* Integer and string primitives the code relies on *)

\* `c as u8`: narrowing of a char to its low byte
as_u8(x) == x % 256

RECURSIVE BitAnd(_, _, _)
\* x & y on the low n bits
BitAnd(x, y, n) ==
    IF n = 0 THEN 0
    ELSE (IF x % 2 = 1 /\ y % 2 = 1 THEN 1 ELSE 0) + 2 * BitAnd(x \div 2, y \div 2, n - 1)

RECURSIVE BitOr(_, _, _)
\* x | y on the low n bits
BitOr(x, y, n) ==
    IF n = 0 THEN 0
    ELSE (IF x % 2 = 1 \/ y % 2 = 1 THEN 1 ELSE 0) + 2 * BitOr(x \div 2, y \div 2, n - 1)

\* char::to_ascii_lowercase
to_ascii_lowercase(ch) == IF ch >= 65 /\ ch <= 90 THEN ch + 32 ELSE ch

\* Lowercase mapping of one char as str::to_lowercase applies it, on the chars
\* the inputs are drawn from: ASCII, Latin-1 capitals (0xC0..0xDE except the
\* multiplication sign 0xD7) and U+0141 (L with stroke)
char_to_lowercase(ch) ==
    IF ch >= 65 /\ ch <= 90 THEN ch + 32
    ELSE IF ch >= 192 /\ ch <= 222 /\ ch # 215 THEN ch + 32
    ELSE IF ch = 321 THEN 322
    ELSE ch

\* str::to_lowercase
to_lowercase(str) == [i \in 1..Len(str) |-> char_to_lowercase(str[i])]

\* contains that only matches at the start of str (starts_with)
contains_prefix(str, pat) ==
    Len(pat) <= Len(str) /\ SubSeq(str, 1, Len(pat)) = pat

\* str::contains(&str): pat occurs in str as a contiguous substring
contains(str, pat) ==
    \E i \in 0..(Len(str) - Len(pat)) : SubSeq(str, i + 1, i + Len(pat)) = pat

NoPos == -1

\* rfind that returns the first occurrence (find)
rfind_first(str, ch) ==
    LET P == {i \in 0..(Len(str) - 1) : str[i + 1] = ch}
    IN IF P = {} THEN NoPos ELSE CHOOSE i \in P : \A j \in P : i <= j

\* str::rfind(char): 0-based index of the last occurrence, NoPos for None
rfind(str, ch) ==
    LET P == {i \in 0..(Len(str) - 1) : str[i + 1] = ch}
    IN IF P = {} THEN NoPos ELSE CHOOSE i \in P : \A j \in P : j <= i

----------------------------------------------------------------------------
(* chars.rs *)

\* fn contains_any(s, strs): strs.iter().any(|a| s.contains(a))
contains_any(str, strs) == \E k \in 1..Len(strs) : contains(str, strs[k])

\* is_ctrl without the exclusion of '\0'
is_ctrl_nul(ch) == ch <= CTRL_MAX

\* pub fn is_ctrl(c)
is_ctrl(ch) == ch # 0 /\ ch <= CTRL_MAX

\* ctrl with a six-bit mask
ctrl_wide(ch) == BitAnd(as_u8(ch), 63, 8)

\* pub fn ctrl(c): ((c as u8) & CTRL_MASK) as char
ctrl(ch) == BitAnd(as_u8(ch), CTRL_MASK, 8)

\* unctrl that sets bit 0x20 instead of CTRL_BIT
unctrl_bit20(ch) == BitOr(as_u8(ch), 32, 8)

\* pub fn unctrl(c): ((c as u8) | CTRL_BIT) as char
unctrl(ch) == BitOr(as_u8(ch), CTRL_BIT, 8)

\* unctrl_lower without the lowercasing
unctrl_lower_upper(ch) == unctrl(ch)

\* pub fn unctrl_lower(c)
unctrl_lower(ch) == to_ascii_lowercase(unctrl(ch))

\* meta with ESCAPE pushed after ch
meta_swapped(ch) == <<ch, ESCAPE>>

\* pub fn meta(ch): ESCAPE pushed first, then ch
meta(ch) == <<ESCAPE, ch>>

\* the modifier spellings searched for in the lowercased name
CTRL_NAMES == << <<99, 45>>,                                \* "c-"
                 <<99, 116, 114, 108, 45>>,                 \* "ctrl-"
                 <<99, 111, 110, 116, 114, 111, 108, 45>> >> \* "control-"

\* meta spellings matched without the hyphen of "meta-"
META_NAMES_bare == << <<109, 45>>,             \* "m-"
                      <<109, 101, 116, 97>> >> \* "meta"

META_NAMES == << <<109, 45>>,                 \* "m-"
                 <<109, 101, 116, 97, 45>> >> \* "meta-"

\* the part of the lowercased name after the last '-', or all of it
base_name(name_lc) ==
    LET pos == rfind(name_lc, 45)
    IN IF pos # NoPos THEN SubSeq(name_lc, pos + 2, Len(name_lc)) ELSE name_lc

\* pub fn parse_char_name(name) -> Option<String>
parse_char_name(nm) ==
    LET name_lc == to_lowercase(nm)
        ctrl_mod == contains_any(name_lc, CTRL_NAMES)
        meta_mod == contains_any(name_lc, META_NAMES)
        base == base_name(name_lc)
        named == base \in { <<100, 101, 108>>,                      \* "del"
                            <<114, 117, 98, 111, 117, 116>>,        \* "rubout"
                            <<101, 115, 99>>,                       \* "esc"
                            <<101, 115, 99, 97, 112, 101>>,         \* "escape"
                            <<108, 102, 100>>,                      \* "lfd"
                            <<110, 101, 119, 108, 105, 110, 101>>,  \* "newline"
                            <<114, 101, 116>>,                      \* "ret"
                            <<114, 101, 116, 117, 114, 110>>,       \* "return"
                            <<115, 112, 99>>,                       \* "spc"
                            <<115, 112, 97, 99, 101>>,              \* "space"
                            <<116, 97, 98>> }                       \* "tab"
        ch == IF base \in { <<100, 101, 108>>, <<114, 117, 98, 111, 117, 116>> } THEN DELETE
              ELSE IF base \in { <<101, 115, 99>>, <<101, 115, 99, 97, 112, 101>> } THEN ESCAPE
              ELSE IF base \in { <<108, 102, 100>>, <<110, 101, 119, 108, 105, 110, 101>> } THEN 10
              ELSE IF base \in { <<114, 101, 116>>, <<114, 101, 116, 117, 114, 110>> } THEN 13
              ELSE IF base \in { <<115, 112, 99>>, <<115, 112, 97, 99, 101>> } THEN 32
              ELSE IF base = <<116, 97, 98>> THEN 9
              ELSE base[1]
    IN IF ~named /\ base = <<>> THEN None
       ELSE IF ctrl_mod /\ meta_mod THEN Some(meta(ctrl(ch)))
       ELSE IF ctrl_mod THEN Some(<<ctrl(ch)>>)
       ELSE IF meta_mod THEN Some(meta(ch))
       ELSE Some(<<ch>>)

\* escape_char with the is_ctrl arm placed before the ESCAPE arm
escape_char_ctrl_first(ch) ==
    IF is_ctrl(ch) THEN <<92, 67, 45>> \o <<unctrl_lower(ch)>>
    ELSE IF ch = ESCAPE THEN <<92, 101>>
    ELSE IF ch = RUBOUT THEN <<92, 67, 45, 63>>
    ELSE IF ch = 92 THEN <<92, 92>>
    ELSE IF ch = 39 THEN <<92, 39>>
    ELSE IF ch = 34 THEN <<92, 34>>
    ELSE <<ch>>

\* the text one char contributes in escape_sequence: the arms of the match, in order
escape_char(ch) ==
    IF ch = ESCAPE THEN <<92, 101>>               \* r"\e"
    ELSE IF ch = RUBOUT THEN <<92, 67, 45, 63>>   \* r"\C-?"
    ELSE IF ch = 92 THEN <<92, 92>>               \* r"\\"
    ELSE IF ch = 39 THEN <<92, 39>>               \* r"\'"
    ELSE IF ch = 34 THEN <<92, 34>>               \* r#"\""#
    ELSE IF is_ctrl(ch) THEN <<92, 67, 45>> \o <<unctrl_lower(ch)>>
    ELSE <<ch>>

RECURSIVE escape_loop(_, _, _)
\* the loop `for ch in s.chars()` from char i on, res being the text built so far
escape_loop(str, i, acc) ==
    IF i > Len(str) THEN acc
    ELSE escape_loop(str, i + 1, acc \o escape_char(str[i]))

\* escape_sequence whose loop skips the first char
escape_sequence_skip(str) == escape_loop(str, 2, <<>>)

\* pub fn escape_sequence(s) -> String
escape_sequence(str) == escape_loop(str, 1, <<>>)


----------------------------------------------------------------------------
(* Inputs *)

\* tokens ending in '-' put in front of a base name
ModTokens == { <<67, 45>>,                                \* "C-"
               <<67, 116, 114, 108, 45>>,                 \* "Ctrl-"
               <<67, 111, 110, 116, 114, 111, 108, 45>>,  \* "Control-"
               <<77, 45>>,                                \* "M-"
               <<77, 101, 116, 97, 45>>,                  \* "Meta-"
               <<69, 115, 99, 45>>,                       \* "Esc-"
               <<78, 117, 109, 45>>,                      \* "Num-"
               <<45>> }                                   \* "-"

RECURSIVE Prefixes(_)
\* concatenations of at most n tokens
Prefixes(n) ==
    IF n = 0 THEN { <<>> }
    ELSE LET P == Prefixes(n - 1) IN P \cup { p \o t : p \in P, t \in ModTokens }

Letters == (65..90) \cup (97..122)

Bases == { <<>>,
           <<100, 101, 108>>, <<114, 117, 98, 111, 117, 116>>,        \* "del" "rubout"
           <<101, 115, 99>>, <<101, 115, 99, 97, 112, 101>>,          \* "esc" "escape"
           <<108, 102, 100>>, <<110, 101, 119, 108, 105, 110, 101>>,  \* "lfd" "newline"
           <<114, 101, 116>>, <<114, 101, 116, 117, 114, 110>>,       \* "ret" "return"
           <<115, 112, 99>>, <<115, 112, 97, 99, 101>>,               \* "spc" "space"
           <<116, 97, 98>>,                                           \* "tab"
           <<69, 115, 99, 97, 112, 101>>, <<84, 97, 98>>,             \* "Escape" "Tab"
           <<68, 69, 76>>, <<82, 101, 116, 117, 114, 110>>,           \* "DEL" "Return"
           <<109, 101, 116, 97, 108>>,                                \* "metal"
           <<99, 111, 110, 116, 114, 111, 108, 108, 101, 114>>,       \* "controller"
           <<116, 97, 98, 115>>,                                      \* "tabs"
           <<91>>, <<63>>, <<64>>, <<53>>,                            \* "[" "?" "@" "5"
           <<201>>, <<321>> }                                         \* U+00C9, U+0141
         \cup { <<x>> : x \in Letters }

NameChars == {45, 99, 77, 120}   \* '-' 'c' 'M' 'x'

RECURSIVE SeqsUpTo(_, _)
\* the sequences over A of length at most n
SeqsUpTo(A, n) ==
    IF n = 0 THEN { <<>> }
    ELSE LET P == SeqsUpTo(A, n - 1) IN P \cup { Append(p, a) : p \in P, a \in A }

Names == { p \o bs : p \in Prefixes(MaxMods), bs \in Bases } \cup SeqsUpTo(NameChars, MaxNameLen)

EscChars == {0, 1, 27, 29, 34, 39, 92, 97, 127, 322}

EscInputs == { <<x>> : x \in 0..127 } \cup SeqsUpTo(EscChars, MaxEscLen)

CodecChars == (0..127) \cup {201, 233, 255, 256, 321, 322}

Calls == {"parse_char_name", "escape_sequence", "ctrl", "unctrl", "unctrl_lower", "is_ctrl", "meta"}

----------------------------------------------------------------------------
(* The caller: one call of a public function on an input; a parsed key may
   then be displayed, and a control character decoded again *)

Init ==
    /\ target \in {"unix", "windows"}
    /\ call \in Calls
    /\ pc = "start"
    /\ name \in (IF call = "parse_char_name" THEN Names ELSE { <<>> })
    /\ s \in (IF call = "escape_sequence" THEN EscInputs ELSE { <<>> })
    /\ c \in (IF call \in {"ctrl", "unctrl", "unctrl_lower", "is_ctrl", "meta"} THEN CodecChars ELSE {0})
    /\ key = None
    /\ res = <<>>
    /\ r = 0
    /\ u = 0
    /\ b = FALSE
    /\ m = <<>>

ParseCharName ==
    /\ pc = "start"
    /\ call = "parse_char_name"
    /\ key' = parse_char_name(name)
    /\ pc' = "parse_char_name"
    /\ UNCHANGED <<target, call, name, s, res, c, r, u, b, m>>

\* escape_sequence on a given text, or on the key sequence just parsed
EscapeSequence ==
    /\ \/ /\ pc = "start"
          /\ call = "escape_sequence"
          /\ s' = s
       \/ /\ pc = "parse_char_name"
          /\ key.some
          /\ s' = key.val
    /\ res' = escape_sequence(s')
    /\ pc' = "escape_sequence"
    /\ UNCHANGED <<target, call, name, key, c, r, u, b, m>>

Ctrl ==
    /\ pc = "start"
    /\ call = "ctrl"
    /\ r' = ctrl(c)
    /\ pc' = "ctrl"
    /\ UNCHANGED <<target, call, name, key, s, res, c, u, b, m>>

\* unctrl on a given char, or on the char ctrl just returned
Unctrl ==
    /\ \/ /\ pc = "start"
          /\ call = "unctrl"
          /\ u' = unctrl(c)
       \/ /\ pc = "ctrl"
          /\ u' = unctrl(r)
    /\ pc' = "unctrl"
    /\ UNCHANGED <<target, call, name, key, s, res, c, r, b, m>>

UnctrlLower ==
    /\ pc = "start"
    /\ call = "unctrl_lower"
    /\ u' = unctrl_lower(c)
    /\ pc' = "unctrl_lower"
    /\ UNCHANGED <<target, call, name, key, s, res, c, r, b, m>>

IsCtrl ==
    /\ pc = "start"
    /\ call = "is_ctrl"
    /\ b' = is_ctrl(c)
    /\ pc' = "is_ctrl"
    /\ UNCHANGED <<target, call, name, key, s, res, c, r, u, m>>

Meta ==
    /\ pc = "start"
    /\ call = "meta"
    /\ m' = meta(c)
    /\ pc' = "meta"
    /\ UNCHANGED <<target, call, name, key, s, res, c, r, u, b>>

Next ==
    \/ ParseCharName
    \/ EscapeSequence
    \/ Ctrl
    \/ Unctrl
    \/ UnctrlLower
    \/ IsCtrl
    \/ Meta

Spec == Init /\ [][Next]_vars

TypeOK ==
    /\ target \in {"unix", "windows"}
    /\ call \in Calls
    /\ pc \in Calls \cup {"start"}
    /\ key.some \in BOOLEAN
    /\ b \in BOOLEAN
    /\ r \in 0..255
    /\ u \in 0..255

----------------------------------------------------------------------------
(* Reference definitions the properties are stated with *)

\* parse_char_name has returned (its result stays in key afterwards)
Parsed == call = "parse_char_name" /\ pc # "start"

\* escape_sequence has returned res for the argument s
Escaped == pc = "escape_sequence"

\* pat occurs in str at some position
RefHas(str, pat) ==
    \E i \in 1..Len(str) :
        \A j \in 1..Len(pat) : i + j - 1 <= Len(str) /\ str[i + j - 1] = pat[j]

\* the base-name token: the suffix of the lowercased name that holds no '-'
\* and is either the whole name or preceded by a '-'
RefBase(nm) ==
    LET lc == to_lowercase(nm)
        k == CHOOSE k \in 0..Len(lc) :
                 /\ k = 0 \/ lc[k] = 45
                 /\ \A i \in (k + 1)..Len(lc) : lc[i] # 45
    IN SubSeq(lc, k + 1, Len(lc))

RefIsCtrl(nm) ==
    \E p \in { <<99, 45>>, <<99, 116, 114, 108, 45>>, <<99, 111, 110, 116, 114, 111, 108, 45>> } :
        RefHas(to_lowercase(nm), p)

RefIsMeta(nm) ==
    \E p \in { <<109, 45>>, <<109, 101, 116, 97, 45>> } : RefHas(to_lowercase(nm), p)

\* the table of named keys: <<name, character>>
RefTable ==
    { << <<100, 101, 108>>, DELETE >>, << <<114, 117, 98, 111, 117, 116>>, DELETE >>,
      << <<101, 115, 99>>, 27 >>, << <<101, 115, 99, 97, 112, 101>>, 27 >>,
      << <<108, 102, 100>>, 10 >>, << <<110, 101, 119, 108, 105, 110, 101>>, 10 >>,
      << <<114, 101, 116>>, 13 >>, << <<114, 101, 116, 117, 114, 110>>, 13 >>,
      << <<115, 112, 99>>, 32 >>, << <<115, 112, 97, 99, 101>>, 32 >>,
      << <<116, 97, 98>>, 9 >> }

\* the character a non-empty base token resolves to
RefResolve(base) ==
    IF \E e \in RefTable : e[1] = base
    THEN (CHOOSE e \in RefTable : e[1] = base)[2]
    ELSE base[1]

\* the low five bits of the low byte
RefCtrl(ch) == (ch % 256) % 32

\* the key sequence of the reference algorithm
RefSeq(nm) ==
    LET ch == RefResolve(RefBase(nm))
    IN CASE RefIsCtrl(nm) /\ RefIsMeta(nm) -> <<27, RefCtrl(ch)>>
         [] RefIsCtrl(nm) /\ ~RefIsMeta(nm) -> <<RefCtrl(ch)>>
         [] ~RefIsCtrl(nm) /\ RefIsMeta(nm) -> <<27, ch>>
         [] OTHER -> <<ch>>

\* the display text of one character, by the first rule that matches
RefEnc(ch) ==
    CASE ch = 27 -> <<92, 101>>
      [] ch = 127 -> <<92, 67, 45, 63>>
      [] ch = 92 -> <<92, 92>>
      [] ch = 39 -> <<92, 39>>
      [] ch = 34 -> <<92, 34>>
      [] ch \in (1..31) \ {27} -> <<92, 67, 45, (IF ch <= 26 THEN ch + 96 ELSE ch + 64)>>
      [] OTHER -> <<ch>>

RECURSIVE RefEscape(_)
\* the encodings of the characters, concatenated in input order
RefEscape(str) ==
    IF str = <<>> THEN <<>> ELSE RefEnc(Head(str)) \o RefEscape(Tail(str))

RefLower(x) == IF x \in 65..90 THEN x + 32 ELSE x

CtrlSpellings == { <<67, 45>>, <<67, 116, 114, 108, 45>>, <<67, 111, 110, 116, 114, 111, 108, 45>> }

MetaSpellings == { <<77, 45>>, <<77, 101, 116, 97, 45>> }

----------------------------------------------------------------------------
(* Properties *)

\* C1: parse_char_name returns None exactly when the base-name token (the
\* lowercased part after the last '-', or the whole lowercased name) is
\* empty; "" and "x-" both give None, every other name gives a sequence.
C1_NoneIffEmptyBase ==
    Parsed =>
        /\ (~key.some) <=> (RefBase(name) = <<>>)
        /\ name \in { <<>>, <<120, 45>> } => key = None

C1_Witness == Parsed /\ name = <<120, 45>> /\ key = None

\* C2: for a name with a non-empty base token parse_char_name returns the
\* sequence of the reference algorithm (substring detection of the modifiers,
\* table lookup or first character, then meta(ctrl(ch)) / ctrl(ch) / meta(ch) /
\* ch); "Escape" gives 0x1B, "Control-u" 0x15, "Meta-tab" 0x1B 0x09 and "C-M-x"
\* Escape followed by ctrl('x').
C2_ReferenceAlgorithm ==
    Parsed =>
        /\ RefBase(name) # <<>> => key = Some(RefSeq(name))
        /\ name = <<69, 115, 99, 97, 112, 101>> => key = Some(<<27>>)
        /\ name = <<67, 111, 110, 116, 114, 111, 108, 45, 117>> => key = Some(<<21>>)
        /\ name = <<77, 101, 116, 97, 45, 116, 97, 98>> => key = Some(<<27, 9>>)
        /\ name = <<67, 45, 77, 45, 120>> => key = Some(<<27, 24>>)

C2_Witness == Parsed /\ name = <<67, 45, 77, 45, 120>> /\ key = Some(<<27, 24>>)

\* C3: a returned key sequence has length 1 when no meta modifier is
\* detected, and length 2 with Escape first when one is detected.
C3_KeyLength ==
    Parsed /\ key.some =>
        /\ Len(key.val) \in {1, 2}
        /\ RefIsMeta(name) => Len(key.val) = 2 /\ key.val[1] = 27
        /\ ~RefIsMeta(name) => Len(key.val) = 1

C3_Witness ==
    /\ Parsed
    /\ name = <<77, 101, 116, 97, 45, 67, 111, 110, 116, 114, 111, 108, 45, 116, 97, 98>>
    /\ key = Some(<<27, 9>>)

\* C4: unctrl(ctrl(c)) = c for every uppercase ASCII letter c; ctrl keeps the
\* low five bits of the low byte and unctrl sets bit 0x40: ctrl maps 'A', 'I',
\* 'J', 'M' to 0x01, tab, newline, return and unctrl maps those back.
C4_CodecRoundTrip ==
    /\ call = "ctrl" /\ pc # "start" =>
        /\ r = RefCtrl(c)
        /\ c = 65 => r = 1
        /\ c = 73 => r = 9
        /\ c = 74 => r = 10
        /\ c = 77 => r = 13
    /\ call = "ctrl" /\ pc = "unctrl" /\ c \in 65..90 => u = c
    /\ call = "unctrl" /\ pc = "unctrl" =>
        /\ u = (IF ((c % 256) \div 64) % 2 = 1 THEN c % 256 ELSE (c % 256) + 64)
        /\ c = 1 => u = 65
        /\ c = 9 => u = 73
        /\ c = 10 => u = 74
        /\ c = 13 => u = 77

C4_Witness == call = "ctrl" /\ pc = "unctrl" /\ c = 77 /\ r = 13 /\ u = 77

\* C5: escape_sequence returns the concatenation, in input order, of the
\* encoding of each character by the first matching rule; Escape is rendered
\* "\e", never "\C-[", and escape_sequence("\x1b\x7f") is "\e\C-?".
C5_EscapeRules ==
    Escaped =>
        /\ res = RefEscape(s)
        /\ s = <<27>> => res = <<92, 101>>
        /\ s = <<27, 127>> => res = <<92, 101, 92, 67, 45, 63>>

C5_Witness == Escaped /\ s = <<27, 127>> /\ res = <<92, 101, 92, 67, 45, 63>>

\* C6 as stated: every control character 0x01..0x1F other than Escape is
\* rendered "\C-" followed by a lowercase letter.
C6_CtrlLowercaseLetter ==
    Escaped /\ Len(s) = 1 /\ s[1] \in (1..31) \ {27} =>
        /\ Len(res) = 4
        /\ SubSeq(res, 1, 3) = <<92, 67, 45>>
        /\ res[4] \in 97..122

\* C6 amended: a control character other than Escape is rendered "\C-"
\* followed by unctrl_lower of it: the lowercase letter 'a'..'z' for
\* 0x01..0x1A, and '\', ']', '^', '_' for 0x1C..0x1F.
C6_CtrlUnctrlLower ==
    Escaped /\ Len(s) = 1 /\ s[1] \in (1..31) \ {27} =>
        /\ Len(res) = 4
        /\ SubSeq(res, 1, 3) = <<92, 67, 45>>
        /\ s[1] <= 26 => res[4] = s[1] + 96
        /\ s[1] >= 28 => res[4] = s[1] + 64 /\ res[4] \in {92, 93, 94, 95}

C6_Witness == Escaped /\ s = <<29>> /\ res = <<92, 67, 45, 93>>

\* C7: escape_sequence returns unchanged a string with no Escape, Rubout,
\* backslash, single quote, double quote or control character 0x01..0x1F.
C7_PlainUnchanged ==
    Escaped /\ (\A i \in 1..Len(s) : s[i] \notin {27, 127, 92, 39, 34} \cup (1..31)) =>
        res = s

C7_Witness == Escaped /\ call = "escape_sequence" /\ s = <<0, 97>> /\ res = <<0, 97>>

\* C8: the output of escape_sequence is at least as long as its input and at
\* most four times as long: every character contributes one to four characters.
C8_OutputLength ==
    Escaped => Len(s) <= Len(res) /\ Len(res) <= 4 * Len(s)

C8_Witness == Escaped /\ Len(s) = 2 /\ Len(res) = 8

\* C9 as stated: the names "metal" and "controller" are treated as carrying a
\* modifier: the result is control-coded or Escape-prefixed, not the plain
\* first character.
C9_BareWordMisclassified ==
    Parsed /\ name \in { <<109, 101, 116, 97, 108>>,
                         <<99, 111, 110, 116, 114, 111, 108, 108, 101, 114>> } =>
        /\ key.some
        /\ key.val[1] = 27 \/ key.val = <<RefCtrl(name[1])>>

\* C9 amended: every searched modifier spelling ends in '-', so a name
\* without '-' is never modifier-qualified and gives the plain resolved
\* character ("metal" gives "m", "controller" gives "c"); a name is
\* misclassified only when such a spelling occurs inside a longer token
\* ("Esc-x" gives ctrl('x'), "Num-5" gives Escape followed by '5').
C9_HyphenatedMisclassified ==
    Parsed =>
        /\ (\A i \in 1..Len(name) : name[i] # 45) /\ key.some =>
               key.val = <<RefResolve(to_lowercase(name))>>
        /\ name = <<109, 101, 116, 97, 108>> => key = Some(<<109>>)
        /\ name = <<99, 111, 110, 116, 114, 111, 108, 108, 101, 114>> => key = Some(<<99>>)
        /\ name = <<69, 115, 99, 45, 120>> => key = Some(<<24>>)
        /\ name = <<78, 117, 109, 45, 53>> => key = Some(<<27, 53>>)

C9_Witness == Parsed /\ name = <<109, 101, 116, 97, 108>> /\ key = Some(<<109>>)

\* C10: for an ASCII letter x and a control spelling P, parse_char_name(P + x)
\* is one character and its display is "\C-" followed by lowercase x; with a
\* meta spelling also in front, the display is "\e\C-" followed by lowercase x.
C10_ParseDisplayRoundTrip ==
    Escaped /\ call = "parse_char_name" /\ name # <<>> =>
        LET x == name[Len(name)]
            pre == SubSeq(name, 1, Len(name) - 1)
        IN /\ x \in Letters /\ pre \in CtrlSpellings =>
                  /\ Len(key.val) = 1
                  /\ res = <<92, 67, 45, RefLower(x)>>
           /\ x \in Letters
              /\ pre \in { a \o d : a \in MetaSpellings, d \in CtrlSpellings }
                         \cup { d \o a : a \in MetaSpellings, d \in CtrlSpellings } =>
                  res = <<92, 101, 92, 67, 45, RefLower(x)>>

C10_Witness ==
    /\ Escaped
    /\ name = <<67, 111, 110, 116, 114, 111, 108, 45, 85>>
    /\ key = Some(<<21>>)
    /\ res = <<92, 67, 45, 117>>

============================================================================
